---- MODULE Spec2Model ----
(***************************************************************************)
(* Model of backend/app.py of the Requirement Classifier: a Flask          *)
(* application with session-based login, a user store (users.json), a      *)
(* prediction history (history.json) and a batch upload that classifies    *)
(* the rows of a spreadsheet.                                              *)
(*                                                                         *)
(* Strings that the code strips or tests for emptiness are sequences of    *)
(* one-character strings.  Spec handles one request at a time (each        *)
(* handler is one atomic action) with one account using the history        *)
(* handlers; SpecAuth runs signup, login and logout over all their         *)
(* inputs; SpecConc runs the history-mutating handlers in two threads of   *)
(* the development server, one step per statement.                         *)
(***************************************************************************)
EXTENDS Integers, Sequences, FiniteSets, TLC

VARIABLES users, usersFile, session, history, historyFile, artifact,
          model, req, resp, pc, local, overlap

vars == <<users, usersFile, session, history, historyFile, artifact,
          model, req, resp, pc, local, overlap>>

(* ------------------------------ bounds ------------------------------- *)

\* longest history the model lets the handlers build
MaxHist == 3

\* most rows in an uploaded table
MaxRows == 2

\* longest history the threaded handlers build
MaxConc == 2

(* ------------------------------ strings ------------------------------ *)

Space == " "

\* str.lstrip() on a sequence of characters
RECURSIVE LStrip(_)
LStrip(s) == IF s # <<>> /\ Head(s) = Space THEN LStrip(Tail(s)) ELSE s

\* str.rstrip()
RECURSIVE RStrip(_)
RStrip(s) ==
    IF s # <<>> /\ s[Len(s)] = Space THEN RStrip(SubSeq(s, 1, Len(s) - 1)) ELSE s

\* mutant: the input is not stripped
Strip_Skipped(s) == s

\* str.strip(): both ends, inner blanks kept
Strip(s) == RStrip(LStrip(s))

(* --------------------------- password hashes ------------------------- *)

Salts == {"s1", "s2"}

\* the one-way digest of werkzeug.security, an injective stand-in
Digest(salt, password) == <<salt, password>>

\* werkzeug generate_password_hash: a fresh salt and the salted digest
generate_password_hash(password, salt) ==
    [salt |-> salt, digest |-> Digest(salt, password)]

\* werkzeug check_password_hash: recompute with the stored salt and compare
check_password_hash(pwhash, password) ==
    Digest(pwhash.salt, password) = pwhash.digest

(* ------------------------------ inputs ------------------------------- *)

UsernameInputs == {<<>>, <<"a">>, <<" ", "a">>, <<"b", " ">>}
EmailInputs == {<<>>, <<" ">>, <<"e">>}
PasswordInputs == {"", "p", "q"}
TextInputs == {<<>>, <<" ">>, <<"a">>, <<" ", "b", " ">>}

(* ------------------------------ session ------------------------------ *)

\* the session cookie without a 'user' key
NoSession == [k \in {} |-> <<>>]

\* mutant: the login check always passes
is_logged_in_Always == TRUE

\* is_logged_in(): 'user' in session
is_logged_in == "user" \in DOMAIN session

(* ---------------------------- user store ----------------------------- *)

NoUsers == [k \in {} |-> <<>>]

\* users[username] = record
PutUser(us, username, rec) ==
    [k \in DOMAIN us \cup {username} |-> IF k = username THEN rec ELSE us[k]]

\* save_users: whole-file rewrite of users.json
save_users(us) == [exists |-> TRUE, data |-> us]

\* load_users: {} when the file is absent
load_users(file) == IF file.exists THEN file.data ELSE NoUsers

(* --------------------------- classification -------------------------- *)

\* a cell of an uploaded table: text, or a spreadsheet date (pandas Timestamp)
StrCell(s) == [kind |-> "str", val |-> s]
TsCell == [kind |-> "ts", val |-> <<"t">>]

\* the value astype(str) hands to the model for a cell
AsStr(cell) == cell.val

\* the pre-trained model, opaque to the application: one fixed classifier
Classify(text) ==
    IF text # <<>> /\ Head(text) = "b" THEN "non-functional" ELSE "functional"

\* model.predict(texts): element-wise, order-preserving
ModelPredict(texts) == [i \in 1..Len(texts) |-> Classify(texts[i])]

Entry(requirement, prediction) ==
    [requirement |-> requirement, prediction |-> prediction]

(* ------------------------------- JSON -------------------------------- *)

NoEntry == Entry(StrCell(<<>>), "")

\* characters of a label between its quotes
LabelWidth(prediction) == IF prediction = "non-functional" THEN 14 ELSE 10

\* a chunk of JSON text and the number of characters it takes in the file;
\* with indent=2 an object takes 52 characters besides its two values
Tok(t, w) == [tok |-> t, obj |-> NoEntry, w |-> w]
Obj(e) ==
    [tok |-> "obj", obj |-> e,
     w |-> 52 + Len(e.requirement.val) + LabelWidth(e.prediction)]

\* json's default encoder knows str, not pandas Timestamp
Serializable(e) == e.requirement.kind = "str"

\* the chunks json.dump writes for the items from position i on; it raises
\* TypeError at the first value it cannot encode, after the chunks before it
RECURSIVE EncodeFrom(_, _)
EncodeFrom(h, i) ==
    IF i > Len(h) THEN [ok |-> TRUE, text |-> <<Tok("]", IF h = <<>> THEN 1 ELSE 2)>>]
    ELSE LET sep == IF i = 1 THEN <<>> ELSE <<Tok(",", 1)>> IN
         IF ~Serializable(h[i])
         THEN [ok |-> FALSE, text |-> sep \o <<Tok("{", 24)>>]
         ELSE LET rest == EncodeFrom(h, i + 1) IN
              [ok |-> rest.ok, text |-> sep \o <<Obj(h[i])>> \o rest.text]

json_dump(h) ==
    LET r == EncodeFrom(h, 1) IN [ok |-> r.ok, text |-> <<Tok("[", 1)>> \o r.text]

\* items of a JSON array from position i on: object, then "," or the closing "]"
RECURSIVE ParseItems(_, _, _)
ParseItems(text, i, acc) ==
    IF i + 1 > Len(text) \/ text[i].tok # "obj" THEN [ok |-> FALSE, value |-> <<>>]
    ELSE IF text[i + 1].tok = "]"
         THEN [ok |-> i + 1 = Len(text), value |->
                  IF i + 1 = Len(text) THEN Append(acc, text[i].obj) ELSE <<>>]
    ELSE IF text[i + 1].tok = ","
         THEN ParseItems(text, i + 2, Append(acc, text[i].obj))
    ELSE [ok |-> FALSE, value |-> <<>>]

\* json.load: ok = FALSE stands for JSONDecodeError
json_load(text) ==
    IF Len(text) < 2 \/ text[1].tok # "[" THEN [ok |-> FALSE, value |-> <<>>]
    ELSE IF text[2].tok = "]" THEN [ok |-> Len(text) = 2, value |-> <<>>]
    ELSE ParseItems(text, 2, <<>>)

NoFile == [exists |-> FALSE, text |-> <<>>]

\* load_history: [] when history.json is absent
load_history(file) ==
    IF file.exists THEN json_load(file.text) ELSE [ok |-> TRUE, value |-> <<>>]

\* save_history: open(..., 'w') truncates, json.dump writes, the with-block
\* closes the file and so flushes whatever was written before an exception
save_history(h) ==
    LET d == json_dump(h) IN
    [ok |-> d.ok, file |-> [exists |-> TRUE, text |-> d.text]]

(* ------------------------------ uploads ------------------------------ *)

ALLOWED_EXTENSIONS == {"csv", "xlsx"}

\* str.lower() on the extensions that occur
Lower(ext) == IF ext = "CSV" THEN "csv" ELSE ext

\* position of the last "." of a filename, 0 when it has none
LastDot(filename) ==
    LET dots == {i \in 1..Len(filename) : filename[i] = "."} IN
    IF dots = {} THEN 0 ELSE CHOOSE i \in dots : \A j \in dots : j <= i

\* allowed_file: '.' in filename and filename.rsplit('.', 1)[1].lower() allowed
allowed_file(filename) ==
    /\ LastDot(filename) > 0
    /\ Len(filename) = LastDot(filename) + 1
    /\ Lower(filename[Len(filename)]) \in ALLOWED_EXTENSIONS

\* werkzeug secure_filename: path separators and parent references dropped
secure_filename(filename) ==
    SelectSeq(filename, LAMBDA c : c \notin {"/", ".."})

\* filename.endswith('.csv'), case-sensitive
EndsWithCsv(filename) ==
    Len(filename) >= 2 /\ filename[Len(filename) - 1] = "." /\ filename[Len(filename)] = "csv"

\* pd.read_csv / pd.read_excel of the saved file: the reader is chosen by the
\* name, and raises on content of the other format or on garbage
ReadTable(filename, content) ==
    LET reader == IF EndsWithCsv(filename) THEN "csv" ELSE "xlsx" IN
    [ok |-> content.fmt = reader, columns |-> content.columns, rows |-> content.rows]

\* sequences over S of length lo..hi
SeqsOf(S, lo, hi) == UNION {[1..n -> S] : n \in lo..hi}

Garbage == [fmt |-> "garbage", columns |-> {}, rows |-> <<>>]

\* a text file is read as text cells only; the workbooks hold a date cell
CsvContents ==
    {[fmt |-> "csv", columns |-> {"id"}, rows |-> <<StrCell(<<"a">>)>>]}
    \cup {[fmt |-> "csv", columns |-> {"requirement"}, rows |-> r] :
             r \in SeqsOf({StrCell(<<"a">>), StrCell(<<"b">>)}, 1, MaxRows)}

XlsxContents ==
    {Garbage, [fmt |-> "xlsx", columns |-> {"id"}, rows |-> <<StrCell(<<"a">>)>>]}
    \cup {[fmt |-> "xlsx", columns |-> {"requirement"}, rows |-> r] :
             r \in {x \in SeqsOf({StrCell(<<"a">>), TsCell}, 1, MaxRows) :
                       \E i \in 1..Len(x) : x[i] = TsCell}}

NoUpload == [name |-> <<>>, content |-> Garbage]

FileInputs ==
    {NoUpload, [name |-> <<"t", ".", "txt">>, content |-> Garbage]}
    \cup {[name |-> <<"t", ".", "CSV">>, content |->
              [fmt |-> "csv", columns |-> {"requirement"}, rows |-> <<StrCell(<<"a">>)>>]]}
    \cup {[name |-> <<"..", "/", "t", ".", "csv">>, content |-> c] : c \in CsvContents}
    \cup {[name |-> <<"t", ".", "xlsx">>, content |-> c] : c \in XlsxContents}

NoArtifact == [exists |-> FALSE, table |-> <<>>]

\* mutant: the rows are appended last row first
RowEntries_Reversed(rows) ==
    LET n == Len(rows)
        preds == ModelPredict([i \in 1..n |-> AsStr(rows[i])])
    IN [i \in 1..n |-> Entry(rows[n + 1 - i], preds[n + 1 - i])]

\* the rows appended for a classified table, in row order
RowEntries(rows) ==
    LET preds == ModelPredict([i \in 1..Len(rows) |-> AsStr(rows[i])]) IN
    [i \in 1..Len(rows) |-> Entry(rows[i], preds[i])]

(* ------------------------ requests and responses --------------------- *)

NoReq ==
    [op |-> "none", username |-> <<>>, email |-> <<>>, password |-> "",
     password2 |-> "", text |-> <<>>, index |-> 0, file |-> NoUpload]

Reply(to, flash, cat, calls) ==
    [to |-> to, flash |-> flash, cat |-> cat, modelCalls |-> calls]

LoginFirst == Reply("login", "Please login first.", "warning", 0)

(* -------------------------- history handlers ------------------------- *)

Threads == {1, 2}

ThreadVars == <<pc, local, overlap>>

\* POST /predict
Predict(raw) ==
    LET text == Strip(raw)
        prediction == ModelPredict(<<text>>)[1]
        appended == Append(history, Entry(StrCell(text), prediction))
        saved == save_history(appended)
    IN
    /\ (is_logged_in /\ text # <<>> /\ model) => Len(history) < MaxHist
    /\ req' = [NoReq EXCEPT !.op = "predict", !.text = raw]
    /\ IF ~is_logged_in
       THEN resp' = LoginFirst /\ UNCHANGED <<history, historyFile>>
       ELSE IF text = <<>>
       THEN /\ resp' = Reply("index", "Please enter a requirement.", "warning", 0)
            /\ UNCHANGED <<history, historyFile>>
       ELSE IF ~model
       THEN /\ resp' = Reply("index", "Model not loaded.", "danger", 0)
            /\ UNCHANGED <<history, historyFile>>
       ELSE /\ history' = appended
            /\ historyFile' = saved.file
            /\ resp' = IF saved.ok THEN Reply("render", prediction, "none", 1)
                       ELSE Reply("500", "TypeError", "none", 1)
    /\ UNCHANGED <<users, usersFile, session, artifact, model, ThreadVars>>

\* mutant: the column check is missing
MissingColumn_Unchecked(df) == FALSE

\* line 135: 'requirement' not in df.columns
MissingColumn(df) == "requirement" \notin df.columns

\* POST /upload; csvFails: df.to_csv cannot open categorized_output.csv.
\* The copy file.save() leaves under uploads/ is read back by this request
\* and by no other handler; it is not kept in the state.
Upload(file, csvFails) ==
    LET filename == secure_filename(file.name)
        df == ReadTable(filename, file.content)
        appended == history \o RowEntries(df.rows)
        saved == save_history(appended)
        classifies == /\ is_logged_in /\ file.name # <<>> /\ allowed_file(file.name)
                      /\ df.ok /\ ~MissingColumn(df) /\ model
        Error(what, calls) == Reply("index", what, "danger", calls)
    IN
    /\ classifies => Len(appended) <= MaxHist
    /\ csvFails => (classifies /\ saved.ok)
    /\ req' = [NoReq EXCEPT !.op = "upload", !.file = file]
    /\ IF ~is_logged_in
       THEN resp' = LoginFirst /\ UNCHANGED <<history, historyFile, artifact>>
       ELSE IF file.name = <<>>
       THEN /\ resp' = Reply("index", "No file selected.", "warning", 0)
            /\ UNCHANGED <<history, historyFile, artifact>>
       ELSE IF ~allowed_file(file.name)
       THEN /\ resp' = Error("Unsupported file type.", 0)
            /\ UNCHANGED <<history, historyFile, artifact>>
       ELSE /\ IF ~df.ok
               THEN /\ resp' = Error("Error: cannot read file", 0)
                    /\ UNCHANGED <<history, historyFile, artifact>>
               ELSE IF MissingColumn(df)
               THEN /\ resp' = Error("Column 'requirement' not found.", 0)
                    /\ UNCHANGED <<history, historyFile, artifact>>
               ELSE IF ~model
               THEN /\ resp' = Error("Error: 'NoneType' has no attribute 'predict'", 0)
                    /\ UNCHANGED <<history, historyFile, artifact>>
               ELSE /\ history' = appended
                    /\ historyFile' = saved.file
                    /\ IF ~saved.ok
                       THEN /\ resp' = Error("Error: not JSON serializable", 1)
                            /\ UNCHANGED artifact
                       ELSE IF csvFails
                       THEN /\ resp' = Error("Error: cannot write output", 1)
                            /\ UNCHANGED artifact
                       ELSE /\ artifact' = [exists |-> TRUE, table |-> RowEntries(df.rows)]
                            /\ resp' = Reply("render", "Successfully categorized!", "success", 1)
    /\ UNCHANGED <<users, usersFile, session, model, ThreadVars>>

\* line 166: 0 <= index < len(history)
InRange(index, h) == 0 <= index /\ index < Len(h)

\* list.pop(index), index counted from 0
Pop(h, index) == SubSeq(h, 1, index) \o SubSeq(h, index + 2, Len(h))

\* POST /delete/<int:index>; the int converter matches unsigned numbers only
Delete(index) ==
    LET popped == Pop(history, index)
        saved == save_history(popped)
    IN
    /\ req' = [NoReq EXCEPT !.op = "delete", !.index = index]
    /\ IF ~is_logged_in
       THEN resp' = LoginFirst /\ UNCHANGED <<history, historyFile>>
       ELSE IF InRange(index, history)
       THEN /\ history' = popped
            /\ historyFile' = saved.file
            /\ resp' = IF saved.ok THEN Reply("categories", "Entry deleted.", "info", 0)
                       ELSE Reply("500", "TypeError", "none", 0)
       ELSE /\ resp' = Reply("categories", "Invalid index.", "danger", 0)
            /\ UNCHANGED <<history, historyFile>>
    /\ UNCHANGED <<users, usersFile, session, artifact, model, ThreadVars>>

\* GET /download
Download ==
    /\ req' = [NoReq EXCEPT !.op = "download"]
    /\ resp' = IF ~is_logged_in THEN LoginFirst
               ELSE IF artifact.exists THEN Reply("send_file", "none", "none", 0)
               ELSE Reply("index", "No file available to download.", "danger", 0)
    /\ UNCHANGED <<users, usersFile, session, history, historyFile, artifact,
                   model, ThreadVars>>

(* ---------------------------- authentication ------------------------- *)

\* mutant: any password is accepted for a known username
CredentialsOk_AnyPassword(username, password) == username \in DOMAIN users

\* lines 260-261: user = users.get(username); user and check_password_hash(...)
CredentialsOk(username, password) ==
    /\ username \in DOMAIN users
    /\ check_password_hash(users[username].password, password)

\* POST /login
Login(rawname, password) ==
    LET username == Strip(rawname) IN
    /\ req' = [NoReq EXCEPT !.op = "login", !.username = rawname, !.password = password]
    /\ IF is_logged_in
       THEN resp' = Reply("index", "none", "none", 0) /\ UNCHANGED session
       ELSE IF CredentialsOk(username, password)
       THEN /\ session' = [user |-> username]
            /\ resp' = Reply("index", "Welcome back", "success", 0)
       ELSE /\ resp' = Reply("render", "Invalid username or password.", "danger", 0)
            /\ UNCHANGED session
    /\ UNCHANGED <<users, usersFile, history, historyFile, artifact, model,
                   ThreadVars>>

\* line 281: any field empty
MissingField(username, email, password, password2) ==
    username = <<>> \/ email = <<>> \/ password = "" \/ password2 = ""

\* mutant: a taken username is not noticed
UsernameTaken_Unchecked(username) == FALSE

\* line 289: username in users
UsernameTaken(username) == username \in DOMAIN users

\* POST /signup; salt: the random salt generate_password_hash draws
Signup(rawname, rawemail, password, password2, salt) ==
    LET username == Strip(rawname)
        email == Strip(rawemail)
        added == PutUser(users, username,
                         [email |-> email,
                          password |-> generate_password_hash(password, salt)])
    IN
    /\ req' = [NoReq EXCEPT !.op = "signup", !.username = rawname, !.email = rawemail,
                            !.password = password, !.password2 = password2]
    /\ IF is_logged_in
       THEN resp' = Reply("index", "none", "none", 0) /\ UNCHANGED <<users, usersFile>>
       ELSE IF MissingField(username, email, password, password2)
       THEN /\ resp' = Reply("signup", "All fields are required.", "warning", 0)
            /\ UNCHANGED <<users, usersFile>>
       ELSE IF password # password2
       THEN /\ resp' = Reply("signup", "Passwords do not match.", "danger", 0)
            /\ UNCHANGED <<users, usersFile>>
       ELSE IF UsernameTaken(username)
       THEN /\ resp' = Reply("signup", "Username already taken.", "danger", 0)
            /\ UNCHANGED <<users, usersFile>>
       ELSE /\ users' = added
            /\ usersFile' = save_users(added)
            /\ resp' = Reply("login", "Signup successful! Please login.", "success", 0)
    /\ UNCHANGED <<session, history, historyFile, artifact, model, ThreadVars>>

\* mutant: logout answers without touching the session
Logout_KeepsSession ==
    /\ req' = [NoReq EXCEPT !.op = "logout"]
    /\ resp' = Reply("login", "Logged out successfully.", "info", 0)
    /\ UNCHANGED <<users, usersFile, session, history, historyFile, artifact, model,
                   pc, local, overlap>>

\* GET /logout: session.pop('user', None)
Logout ==
    /\ req' = [NoReq EXCEPT !.op = "logout"]
    /\ session' = NoSession
    /\ resp' = Reply("login", "Logged out successfully.", "info", 0)
    /\ UNCHANGED <<users, usersFile, history, historyFile, artifact, model,
                   ThreadVars>>

(* --------------------------- specification --------------------------- *)

\* a request thread's locals: the request, the entry it appended or removed,
\* the rows still to append, and the text buffered for history.json
IdleThread ==
    [op |-> "none", index |-> 0, entry |-> NoEntry, rows |-> <<>>, buf |-> <<>>]

Init ==
    /\ users = load_users([exists |-> FALSE, data |-> NoUsers])
    /\ usersFile = [exists |-> FALSE, data |-> NoUsers]
    /\ session = NoSession
    /\ historyFile = NoFile
    /\ history = load_history(NoFile).value
    /\ artifact = NoArtifact
    /\ model \in BOOLEAN
    /\ req = NoReq
    /\ resp = Reply("none", "none", "none", 0)
    /\ pc = [t \in Threads |-> "idle"]
    /\ local = [t \in Threads |-> IdleThread]
    /\ overlap = FALSE

\* the history handlers, used from one account
Next ==
    \/ \E raw \in TextInputs : Predict(raw)
    \/ \E file \in FileInputs, csvFails \in BOOLEAN : Upload(file, csvFails)
    \/ \E index \in 0..(MaxHist + 1) : Delete(index)
    \/ Download
    \/ Signup(<<"a">>, <<"e">>, "p", "p", "s1")
    \/ Login(<<"a">>, "p")
    \/ Logout

Spec == Init /\ [][Next]_vars

\* the authentication handlers over all their inputs; no other handler
\* reads or writes users, users.json or the session's value
NextAuth ==
    \/ \E rawname \in UsernameInputs, password \in PasswordInputs :
          Login(rawname, password)
    \/ \E rawname \in UsernameInputs, rawemail \in EmailInputs,
          password \in PasswordInputs, password2 \in PasswordInputs, salt \in Salts :
          Signup(rawname, rawemail, password, password2, salt)
    \/ Logout

SpecAuth == Init /\ [][NextAuth]_vars

(* ------------------- the handlers, statement by statement ------------ *)
(* app.run() serves each request in a thread of its own.  history is one   *)
(* list shared by the threads, and no handler takes a lock.  A list        *)
(* operation is atomic under the interpreter lock; a thread can be         *)
(* preempted between any two statements.  history.json is small enough to  *)
(* sit in the writer's buffer until the with-block closes the file.        *)

OtherBusy(t) == \E u \in Threads \ {t} : pc[u] # "idle"

\* entries that running requests will still append
Pending ==
    LET n(t) == IF pc[t] = "append" THEN 1
                ELSE IF pc[t] = "rows" THEN Len(local[t].rows) ELSE 0
    IN n(1) + n(2)

Start(t, l, at) ==
    /\ pc' = [pc EXCEPT ![t] = at]
    /\ local' = [local EXCEPT ![t] = l]
    /\ overlap' = (overlap \/ OtherBusy(t))

\* predict, lines 95-108: the checks and model.predict
PredictBegin(t, raw) ==
    LET text == Strip(raw) IN
    /\ pc[t] = "idle"
    /\ is_logged_in /\ text # <<>> /\ model
    /\ Len(history) + Pending < MaxConc
    /\ Start(t, [IdleThread EXCEPT !.op = "predict",
                    !.entry = Entry(StrCell(text), ModelPredict(<<text>>)[1])], "append")
    /\ UNCHANGED history

\* predict, line 109: history.append
PredictAppend(t) ==
    /\ pc[t] = "append"
    /\ history' = Append(history, local[t].entry)
    /\ pc' = [pc EXCEPT ![t] = "open"]
    /\ UNCHANGED <<local, overlap>>

\* upload, lines 116-139: the checks, the read and model.predict
UploadBegin(t, file) ==
    LET df == ReadTable(secure_filename(file.name), file.content) IN
    /\ pc[t] = "idle"
    /\ Len(history) + Pending + Len(file.content.rows) <= MaxConc
    /\ is_logged_in /\ file.name # <<>> /\ allowed_file(file.name)
    /\ df.ok /\ ~MissingColumn(df) /\ model
    /\ Start(t, [IdleThread EXCEPT !.op = "upload", !.rows = RowEntries(df.rows)], "rows")
    /\ UNCHANGED history

\* upload, lines 140-141: one turn of the loop
UploadAppend(t) ==
    /\ pc[t] = "rows"
    /\ history' = Append(history, Head(local[t].rows))
    /\ local' = [local EXCEPT ![t].rows = Tail(@), ![t].entry = Head(local[t].rows)]
    /\ pc' = [pc EXCEPT ![t] = IF Len(local[t].rows) = 1 THEN "open" ELSE "rows"]
    /\ UNCHANGED overlap

\* delete_history_item, lines 162-166: the checks
DeleteBegin(t, index) ==
    /\ pc[t] = "idle"
    /\ is_logged_in /\ InRange(index, history)
    /\ Start(t, [IdleThread EXCEPT !.op = "delete", !.index = index], "pop")
    /\ UNCHANGED history

\* delete_history_item, line 167: history.pop(index) raises IndexError when
\* the list has shrunk since the check, and the request ends in a 500
DeletePop(t) ==
    /\ pc[t] = "pop"
    /\ IF InRange(local[t].index, history)
       THEN /\ history' = Pop(history, local[t].index)
            /\ local' = [local EXCEPT ![t].entry = history[local[t].index + 1]]
            /\ pc' = [pc EXCEPT ![t] = "open"]
       ELSE /\ local' = [local EXCEPT ![t].op = "failed"]
            /\ pc' = [pc EXCEPT ![t] = "idle"]
            /\ UNCHANGED history
    /\ UNCHANGED overlap

\* what is left of text from chunk i on once n more characters are
\* overwritten; a chunk cut in two leaves a fragment
RECURSIVE RestFrom(_, _, _)
RestFrom(text, i, n) ==
    IF i > Len(text) THEN <<>>
    ELSE IF n = 0 THEN SubSeq(text, i, Len(text))
    ELSE IF text[i].w <= n THEN RestFrom(text, i + 1, n - text[i].w)
    ELSE <<Tok("fragment", text[i].w - n)>> \o SubSeq(text, i + 1, Len(text))

RECURSIVE Width(_)
Width(text) == IF text = <<>> THEN 0 ELSE Head(text).w + Width(Tail(text))

\* what a writer's flush at offset 0 leaves in a file holding text
Overwrite(text, buf) == buf \o RestFrom(text, 1, Width(buf))

\* save_history, line 54: open(HISTORY_FILE, 'w') truncates the file
SaveOpen(t) ==
    /\ pc[t] = "open"
    /\ historyFile' = [exists |-> TRUE, text |-> <<>>]
    /\ pc' = [pc EXCEPT ![t] = "dump"]
    /\ UNCHANGED <<history, local, overlap>>

\* save_history, line 55: json.dump encodes the list as it is now
SaveDump(t) ==
    /\ pc[t] = "dump"
    /\ local' = [local EXCEPT ![t].buf = json_dump(history).text]
    /\ pc' = [pc EXCEPT ![t] = "close"]
    /\ UNCHANGED <<history, historyFile, overlap>>

\* mutant: the buffered text never reaches the file
SaveClose_NoFlush(t) ==
    /\ pc[t] = "close"
    /\ pc' = [pc EXCEPT ![t] = "idle"]
    /\ local' = [local EXCEPT ![t].buf = <<>>]
    /\ UNCHANGED <<history, historyFile, overlap>>

\* save_history, end of the with-block: the buffer reaches the file; the
\* handler then answers
SaveClose(t) ==
    /\ pc[t] = "close"
    /\ historyFile' = [exists |-> TRUE, text |-> Overwrite(historyFile.text, local[t].buf)]
    /\ pc' = [pc EXCEPT ![t] = "idle"]
    /\ local' = [local EXCEPT ![t].buf = <<>>]
    /\ UNCHANGED <<history, overlap>>

\* one account, signed up and logged in; history.json not yet written
InitConc ==
    LET account == PutUser(NoUsers, <<"a">>,
                           [email |-> <<"e">>, password |-> generate_password_hash("p", "s1")])
    IN
    /\ users = account
    /\ usersFile = save_users(account)
    /\ session = [user |-> <<"a">>]
    /\ historyFile = NoFile
    /\ history = load_history(NoFile).value
    /\ artifact = NoArtifact
    /\ model = TRUE
    /\ req = NoReq
    /\ resp = Reply("none", "none", "none", 0)
    /\ pc = [t \in Threads |-> "idle"]
    /\ local = [t \in Threads |-> IdleThread]
    /\ overlap = FALSE

\* uploads whose rows json.dump can encode
ConcFileInputs ==
    {[name |-> <<"..", "/", "t", ".", "csv">>, content |-> c] : c \in CsvContents}

ConcFrame == UNCHANGED <<users, usersFile, session, artifact, model, req, resp>>

NextConc ==
    \E t \in Threads :
        \/ \E raw \in TextInputs : PredictBegin(t, raw) /\ UNCHANGED historyFile /\ ConcFrame
        \/ PredictAppend(t) /\ UNCHANGED historyFile /\ ConcFrame
        \/ \E file \in ConcFileInputs : UploadBegin(t, file) /\ UNCHANGED historyFile /\ ConcFrame
        \/ UploadAppend(t) /\ UNCHANGED historyFile /\ ConcFrame
        \/ \E index \in 0..MaxConc : DeleteBegin(t, index) /\ UNCHANGED historyFile /\ ConcFrame
        \/ DeletePop(t) /\ UNCHANGED historyFile /\ ConcFrame
        \/ SaveOpen(t) /\ ConcFrame
        \/ SaveDump(t) /\ ConcFrame
        \/ SaveClose(t) /\ ConcFrame

SpecConc == InitConc /\ [][NextConc]_vars

(* ------------------------------ claims ------------------------------- *)

LoggedInBefore == "user" \in DOMAIN session

\* the password p is the one the stored hash h was made from
Matches(h, p) == h.digest = Digest(h.salt, p)

\* a string of blanks only (the empty string included)
Blank(s) == \A i \in 1..Len(s) : s[i] = Space

Range(f) == {f[i] : i \in DOMAIN f}

\* C1 as stated: every login POST whose username (read as the code reads it,
\* stripped) is in the store and whose password matches the stored hash
\* leaves the session carrying that username; every other login POST leaves
\* the session as it was.
C1_LoginAsStated ==
    [][req'.op = "login" =>
        LET name == RStrip(LStrip(req'.username)) IN
        IF name \in DOMAIN users /\ Matches(users[name].password, req'.password)
        THEN session' = [user |-> name]
        ELSE session' = session]_vars

\* C1 amended: a login POST made while the session carries a username changes
\* nothing; made while it carries none, it succeeds and sets the session to
\* the stripped username when the stripped username is in the store and the
\* password matches its hash, and otherwise fails and leaves the session as
\* it was.
C1_Login ==
    [][req'.op = "login" =>
        LET name == RStrip(LStrip(req'.username)) IN
        IF LoggedInBefore
        THEN session' = session /\ resp'.cat = "none"
        ELSE IF name \in DOMAIN users /\ Matches(users[name].password, req'.password)
        THEN resp'.cat = "success" /\ session' = [user |-> name]
        ELSE resp'.cat = "danger" /\ session' = session]_vars

\* a login that succeeded for a username submitted with a leading blank
C1_Witness ==
    /\ req.op = "login" /\ req.username = <<" ", "a">>
    /\ resp.cat = "success"
    /\ session = [user |-> <<"a">>]
    /\ <<"b">> \in DOMAIN users

\* C3 as stated: a successful login and a successful signup each leave the
\* session carrying the user's username, and logout leaves it carrying none.
C3_SessionAsStated ==
    [][/\ (req'.op \in {"login", "signup"} /\ resp'.cat = "success")
            => session' = [user |-> RStrip(LStrip(req'.username))]
       /\ req'.op = "logout" => "user" \notin DOMAIN session']_vars

\* C3 amended: a successful login leaves the session carrying the username;
\* a successful signup stores the account and leaves the session as it was,
\* carrying no username (the user is sent to the login page); logout leaves
\* the session carrying no username, whatever it carried before.
C3_Session ==
    [][/\ (req'.op = "login" /\ resp'.cat = "success")
            => session' = [user |-> RStrip(LStrip(req'.username))]
       /\ (req'.op = "signup" /\ resp'.cat = "success")
            => session' = session /\ "user" \notin DOMAIN session'
       /\ req'.op = "logout" => "user" \notin DOMAIN session']_vars

\* an account just created, with the session still anonymous
C3_Witness ==
    /\ req.op = "signup" /\ resp.cat = "success"
    /\ RStrip(LStrip(req.username)) \in DOMAIN users
    /\ "user" \notin DOMAIN session

\* C4: every record of the user store stays as it is in every step; the store
\* changes only by a successful signup, which adds the one stripped username
\* that was not present; a signup with an empty field, with password and
\* confirmation different, or with a taken username is rejected and leaves
\* the store and users.json as they were.
C4_UserStore ==
    [][LET name == RStrip(LStrip(req'.username))
           bad == \/ name = <<>> \/ Blank(req'.email)
                  \/ req'.password = "" \/ req'.password2 = ""
                  \/ req'.password # req'.password2
                  \/ name \in DOMAIN users
       IN
       /\ \A u \in DOMAIN users : u \in DOMAIN users' /\ users'[u] = users[u]
       /\ users' # users =>
             /\ req'.op = "signup" /\ resp'.cat = "success"
             /\ name \notin DOMAIN users
             /\ DOMAIN users' = DOMAIN users \cup {name}
             /\ usersFile' = [exists |-> TRUE, data |-> users']
       /\ (req'.op = "signup" /\ bad) =>
             /\ users' = users /\ usersFile' = usersFile
             /\ resp'.cat # "success"]_vars

\* a signup refused for a taken username whose record holds another password
C4_Witness ==
    /\ req.op = "signup" /\ resp.flash = "Username already taken."
    /\ RStrip(LStrip(req.username)) \in DOMAIN users
    /\ ~Matches(users[RStrip(LStrip(req.username))].password, req.password)

\* C2: a predict, upload, delete or download request made while the session
\* carries no username is answered with the redirect to the login page and
\* leaves the history list, history.json and the categorized output as they
\* were; the history list changes only in steps whose session carries a
\* username.
C2_AuthGate ==
    [][/\ (req'.op \in {"predict", "upload", "delete", "download"} /\ ~LoggedInBefore)
            => /\ resp'.to = "login" /\ resp'.cat = "warning" /\ resp'.modelCalls = 0
               /\ history' = history /\ historyFile' = historyFile
               /\ artifact' = artifact
       /\ (history' # history \/ historyFile' # historyFile \/ artifact' # artifact)
            => LoggedInBefore]_vars

\* an upload of a classifiable table refused after logout, history not empty
C2_Witness ==
    /\ req.op = "upload" /\ resp.to = "login"
    /\ "requirement" \in req.file.content.columns
    /\ "user" \notin DOMAIN session
    /\ history # <<>> /\ artifact.exists /\ model

\* C5 as stated: an authenticated delete with an index outside
\* 0..len(history)-1 leaves the list and history.json as they were and
\* reports an error; with an index inside, exactly that entry is removed, the
\* others keep their order, and history.json holds the resulting list.
C5_DeleteAsStated ==
    [][(req'.op = "delete" /\ LoggedInBefore) =>
        LET i == req'.index IN
        IF i < 0 \/ i >= Len(history)
        THEN /\ history' = history /\ historyFile' = historyFile
             /\ resp'.cat = "danger"
        ELSE /\ Len(history') = Len(history) - 1
             /\ \A k \in 1..Len(history') :
                   history'[k] = IF k <= i THEN history[k] ELSE history[k + 1]
             /\ historyFile'.exists
             /\ json_load(historyFile'.text) = [ok |-> TRUE, value |-> history']]_vars

\* C6: a predict request whose text is empty or blanks only is answered with
\* a warning, calls the model not once, and leaves the history list and
\* history.json as they were, with or without a model loaded.
C6_EmptyPredict ==
    [][(req'.op = "predict" /\ Blank(req'.text)) =>
        /\ resp'.cat = "warning" /\ resp'.modelCalls = 0
        /\ history' = history /\ historyFile' = historyFile]_vars

\* a blank text refused for a logged-in user with a model loaded
C6_Witness ==
    /\ req.op = "predict" /\ req.text = <<" ">>
    /\ resp.flash = "Please enter a requirement."
    /\ "user" \in DOMAIN session /\ model /\ history # <<>>

\* C7: an authenticated upload of a readable table without a requirement
\* column is refused with an error, calls the model not once, and leaves the
\* history list and history.json as they were.
C7_MissingColumn ==
    [][(/\ req'.op = "upload" /\ LoggedInBefore
        /\ req'.file.content.fmt # "garbage"
        /\ "requirement" \notin req'.file.content.columns) =>
        /\ resp'.cat = "danger" /\ resp'.modelCalls = 0
        /\ history' = history /\ historyFile' = historyFile]_vars

\* a table without the column refused while a model is loaded
C7_Witness ==
    /\ req.op = "upload" /\ resp.flash = "Column 'requirement' not found."
    /\ req.file.content.rows # <<>>
    /\ model /\ history # <<>>

\* C8: a successful upload of a table of k rows appends k entries after the
\* entries the history held, the i-th pairing the i-th row's requirement
\* with the label the model gives for that row's text.
C8_UploadAppends ==
    [][(req'.op = "upload" /\ resp'.cat = "success") =>
        LET rows == req'.file.content.rows IN
        /\ Len(history') = Len(history) + Len(rows)
        /\ SubSeq(history', 1, Len(history)) = history
        /\ \A i \in 1..Len(rows) :
              history'[Len(history) + i] =
                  [requirement |-> rows[i], prediction |-> Classify(rows[i].val)]
        /\ resp'.modelCalls = 1]_vars

\* two different rows appended behind an older entry
C8_Witness ==
    /\ req.op = "upload" /\ resp.cat = "success"
    /\ Len(req.file.content.rows) = 2
    /\ req.file.content.rows[1] # req.file.content.rows[2]
    /\ Len(history) = 3
    /\ history[2].prediction # history[3].prediction

\* C10 as stated: an authenticated upload that ends in an error notice leaves
\* the history list as it was before the request.
C10_UploadErrorAsStated ==
    [][(req'.op = "upload" /\ LoggedInBefore /\ resp'.cat \in {"warning", "danger"})
          => history' = history]_vars

\* C10, its consequence as stated: after every request the history list is
\* what history.json holds.
C10_HistoryAgreesWithFile ==
    load_history(historyFile) = [ok |-> TRUE, value |-> history]

\* C5 where json.dump can encode every entry of the list: the statement of
\* C5 holds of those deletes, so it fails only through entries that an
\* upload ending in an error left in the list (C10).
C5_DeleteOfEncodableList ==
    [][(/\ req'.op = "delete" /\ LoggedInBefore
        /\ \A k \in 1..Len(history) : history[k].requirement.kind = "str") =>
        LET i == req'.index IN
        IF i < 0 \/ i >= Len(history)
        THEN /\ history' = history /\ historyFile' = historyFile
             /\ resp'.cat = "danger"
        ELSE /\ Len(history') = Len(history) - 1
             /\ \A k \in 1..Len(history') :
                   history'[k] = IF k <= i THEN history[k] ELSE history[k + 1]
             /\ historyFile'.exists
             /\ json_load(historyFile'.text) = [ok |-> TRUE, value |-> history']]_vars

(* ------------------------- claims, threaded -------------------------- *)

Quiescent == \A t \in Threads : pc[t] = "idle"

\* the next statement of a request that thread t has begun
ThreadStep(t) ==
    \/ PredictAppend(t) \/ UploadAppend(t) \/ DeletePop(t)
    \/ SaveOpen(t) \/ SaveDump(t) \/ SaveClose(t)

\* C9: no request waits for another (a thread inside a handler can always
\* take its next statement, whatever the other thread is doing), and when
\* no two requests have overlapped, history.json holds the history list
\* once all requests have answered; a lost update is C9_Witness.
C9_NoLock ==
    /\ \A t \in Threads : pc[t] # "idle" => ENABLED ThreadStep(t)
    /\ (Quiescent /\ ~overlap)
          => load_history(historyFile) = [ok |-> TRUE, value |-> history]

\* all requests have answered and history.json is a well-formed list that
\* lacks the entry a completed predict or upload appended, which the
\* history list in memory holds
C9_Witness ==
    /\ Quiescent
    /\ load_history(historyFile).ok
    /\ \E t \in Threads :
          /\ local[t].op \in {"predict", "upload"}
          /\ local[t].entry \in Range(history)
          /\ local[t].entry \notin Range(load_history(historyFile).value)

\* all requests have answered and history.json is a well-formed list that
\* still holds the entry a completed delete removed
C9_LostDelete ==
    /\ Quiescent
    /\ load_history(historyFile).ok
    /\ \E t \in Threads :
          /\ local[t].op = "delete"
          /\ local[t].entry \notin Range(history)
          /\ local[t].entry \in Range(load_history(historyFile).value)

====
